---- MODULE Spec2Model ----
(***************************************************************************)
(* Hierarchical category axis of chartjs-plugin-hierarchical: the label    *)
(* tree, the visible sequence (chart.data.labels), the datasets' value     *)
(* arrays and the click-driven collapse / expand / zoomIn / zoomOut         *)
(* operations of src/plugin/hierarchical.ts.                                *)
(*                                                                         *)
(* Arrays are TLA+ sequences; positions passed around are the JavaScript   *)
(* 0-based positions, and At(arr, i) reads arr[i].  Nodes are identified   *)
(* by their 0-based index in the flat table, as ILabelNode.parent does.    *)
(***************************************************************************)
EXTENDS Integers, Sequences, FiniteSets, TLC

VARIABLES flatLabels, labels, datasets, verify, attributes, ticks, hor, lastOp, clicks

vars == <<flatLabels, labels, datasets, verify, attributes, ticks, hor, lastOp, clicks>>

(***************************************************************************)
(* Bounds of the model.                                                    *)
(***************************************************************************)
\* every label tree of up to MaxNodes nodes is tried as input
MaxNodes == 4

\* number of datasets of the chart
NumDatasets == 2

\* largest number of operations dispatched by clicks in one run
MaxClicks == 4

\* the length of the axis in pixels: scale.width or scale.height
AxisLength == 300

\* the values a label may set an attribute to are 1..MaxAttrValue
MaxAttrValue == 2

(***************************************************************************)
(* Program constants.                                                      *)
(***************************************************************************)
\* deepest level the scale supports ("max 5 levels for now": levels 0..4)
MaxLevel == 4

\* defaultConfig.padding
padding == 25

\* defaultConfig.hierarchyBoxLineHeight
hierarchyBoxLineHeight == 30

\* position of the scale's box in the chart: scale.top, scale.left
scale == [top |-> 0, left |-> 0]

(***************************************************************************)
(* JavaScript array primitives.                                            *)
(***************************************************************************)
Min(a, b) == IF a <= b THEN a ELSE b

Max(a, b) == IF a >= b THEN a ELSE b

\* arr[i] for a 0-based i inside the array
At(arr, i) == arr[i + 1]

\* whether arr[i] is an element of the array (not undefined)
Has(arr, i) == i >= 0 /\ i < Len(arr)

\* a relative start or end of Array.prototype.slice / splice, clamped to 0..len
RelIndex(len, i) == IF i < 0 THEN Max(len + i, 0) ELSE Min(i, len)

\* arr.slice(start, end)
Slice(arr, start, end) ==
  LET from == RelIndex(Len(arr), start)
      to == RelIndex(Len(arr), end)
  IN IF to <= from THEN <<>> ELSE SubSeq(arr, from + 1, to)

\* arr.slice(start)
SliceFrom(arr, start) == Slice(arr, start, Len(arr))

\* the number of elements arr.splice(start, deleteCount, ...) removes
SpliceCount(arr, start, deleteCount) ==
  Min(Max(deleteCount, 0), Len(arr) - RelIndex(Len(arr), start))

\* the elements arr.splice(start, deleteCount, ...items) returns
SpliceRemoved(arr, start, deleteCount) ==
  LET from == RelIndex(Len(arr), start)
  IN SubSeq(arr, from + 1, from + SpliceCount(arr, start, deleteCount))

\* arr after arr.splice(start, deleteCount, ...items)
Splice(arr, start, deleteCount, items) ==
  LET from == RelIndex(Len(arr), start)
      cnt == SpliceCount(arr, start, deleteCount)
  IN SubSeq(arr, 1, from) \o items \o SubSeq(arr, from + cnt + 1, Len(arr))

\* arr.indexOf(x): the first 0-based position of x, -1 when absent
IndexOf(arr, x) ==
  IF \E i \in 1..Len(arr) : arr[i] = x
  THEN (CHOOSE i \in 1..Len(arr) : arr[i] = x /\ \A j \in 1..(i - 1) : arr[j] # x) - 1
  ELSE -1

\* the elements of a sequence, as a set
Range(arr) == {arr[i] : i \in 1..Len(arr)}

RECURSIVE Flatten(_)
\* the concatenation of a sequence of sequences
Flatten(seqs) == IF seqs = <<>> THEN <<>> ELSE Head(seqs) \o Flatten(Tail(seqs))

(***************************************************************************)
(* The label tree.  The input is the nested label structure in pre-order:  *)
(* one entry per label with its nesting depth and its expand flag.         *)
(***************************************************************************)
\* the nesting depths of a well-formed nested label structure, in pre-order
IsNesting(lv) ==
  /\ lv[1] = 0
  /\ \A i \in 2..Len(lv) : lv[i] <= lv[i - 1] + 1

\* whether the i-th label of the input has children
RawHasChildren(lv, i) == i < Len(lv) /\ lv[i + 1] = lv[i] + 1

\* larger label trees tried as input besides the small ones: a chain that
\* ends in two leaves, a group of two leaves in a group with and without a
\* sibling leaf, before and after another root, and a group of three
LargerShapes ==
  { <<0, 1, 2, 3, 3>>, <<0, 1, 2, 2, 0>>, <<0, 0, 1, 2, 2>>, <<0, 1, 2, 2, 1>>,
    <<0, 1, 2, 1, 0>>, <<0, 0, 1, 2, 2, 1>>, <<0, 1, 1, 1, 0>> }

\* the nesting depths of the label trees tried as input
Shapes ==
  {<<>>} \cup LargerShapes \cup
    UNION { { l \in [1..n -> 0..MaxLevel] : IsNesting(l) } : n \in 1..MaxNodes }

\* the names of the attributes a scale may be configured with
AttrNames == {"backgroundColor"}

\* the values a label descriptor may give an attribute
AttrValues == 1..MaxAttrValue

\* what stands for an attribute a node does not have as own property
Absent == -1

\* the own attributes of a label that sets none
NoAttributes == [a \in AttrNames |-> Absent]

\* the expand flags the labels of a tree may carry: a label without children
\* has the default
ExpandFlags(lv) ==
  { e \in [1..Len(lv) -> {"false", "true"}] :
      \A i \in 1..Len(lv) : ~RawHasChildren(lv, i) => e[i] = "true" }

\* the nested label structure with the given depths, expand flags and own
\* attributes
Labelled(lv, ex, ow) ==
  [i \in 1..Len(lv) |-> [level |-> lv[i], expand |-> ex[i], own |-> ow[i]]]

\* the nested label structures the chart may be given: a plain string has
\* the default expand flag, a descriptor with children sets its own
RawLabels ==
  UNION { { Labelled(lv, ex, [i \in 1..Len(lv) |-> NoAttributes]) : ex \in ExpandFlags(lv) }
          : lv \in Shapes }

\* the label trees tried as input of a chart with a configured attribute: no
\* label, two roots, a group of two leaves and a group in a group
AttributeShapes == { <<>>, <<0, 0>>, <<0, 1, 1>>, <<0, 1, 2>> }

\* the nested label structures whose descriptors set the attribute or not
RawLabelsWithAttributes ==
  UNION { { Labelled(lv, ex, ow) :
              ex \in ExpandFlags(lv),
              ow \in [1..Len(lv) -> [AttrNames -> {Absent} \cup AttrValues]] }
          : lv \in AttributeShapes }

\* the label trees tried as input of a chart whose descriptors may set
\* expand to 'focus': a group of two leaves alone and after another root, a
\* group in a group, with and without a sibling leaf
FocusShapes == { <<0, 1, 1>>, <<0, 0, 1, 1>>, <<0, 1, 2, 2>>, <<0, 1, 2, 2, 1>> }

\* the expand flags of a tree in which at most one label with children is
\* given expand: 'focus'
FocusFlags(lv) ==
  { e \in [1..Len(lv) -> {"false", "true", "focus"}] :
      /\ \A i \in 1..Len(lv) : ~RawHasChildren(lv, i) => e[i] = "true"
      /\ Cardinality({ i \in 1..Len(lv) : e[i] = "focus" }) <= 1 }

\* the nested label structures with at most one focused label
RawLabelsWithFocus ==
  UNION { { Labelled(lv, ex, [i \in 1..Len(lv) |-> NoAttributes]) : ex \in FocusFlags(lv) }
          : lv \in FocusShapes }

\* the parent of the k-th node (0-based) of the input: the nearest earlier
\* label one level up, -1 for a root
RawParent(raw, k) ==
  IF raw[k + 1].level = 0 THEN -1
  ELSE CHOOSE j \in 0..(k - 1) :
         /\ raw[j + 1].level = raw[k + 1].level - 1
         /\ \A m \in (j + 1)..(k - 1) : raw[m + 1].level >= raw[k + 1].level

\* the nodes of the input whose parent is p, in input order
RawChildren(raw, p) ==
  SelectSeq([i \in 1..Len(raw) |-> i - 1], LAMBDA k : RawParent(raw, k) = p)

\* whether some proper ancestor of the k-th node of the input is collapsed
RECURSIVE RawUnderCollapsed(_, _)
RawUnderCollapsed(raw, k) ==
  LET p == RawParent(raw, k)
  IN p >= 0 /\ (raw[p + 1].expand = "false" \/ RawUnderCollapsed(raw, p))

\* toNodes(labels): the flat node table, in pre-order, with the parent, level,
\* sibling index and children of every node; a node starts hidden when it
\* is not part of the initial visible sequence.  The labels of the input
\* name the siblings of a group by their position, so cousins share labels.
toNodes(raw) ==
  [k \in 0..(Len(raw) - 1) |->
     LET children == RawChildren(raw, k)
     IN [ label |-> IndexOf(RawChildren(raw, RawParent(raw, k)), k),
          parent |-> RawParent(raw, k),
          level |-> raw[k + 1].level,
          relIndex |-> IndexOf(RawChildren(raw, RawParent(raw, k)), k),
          children |-> children,
          expand |-> raw[k + 1].expand,
          own |-> raw[k + 1].own,
          hidden |-> \/ RawUnderCollapsed(raw, k)
                     \/ (children # <<>> /\ raw[k + 1].expand # "false") ]]

\* the nodes of a flat table, in flat order
FlatSeq(flat) == [i \in 1..Cardinality(DOMAIN flat) |-> i - 1]

\* parentsOf(node, flat): the path root, ..., parent, node
RECURSIVE parentsOf(_, _)
parentsOf(node, flat) ==
  IF flat[node].parent >= 0
  THEN Append(parentsOf(flat[node].parent, flat), node)
  ELSE <<node>>

\* the visible nodes below (or at) a node: a collapsed node or a leaf stands
\* for itself, an expanded or focused node for its children
RECURSIVE VisibleBelow(_, _)
VisibleBelow(node, flat) ==
  IF flat[node].children = <<>> \/ flat[node].expand = "false"
  THEN <<node>>
  ELSE Flatten([i \in 1..Len(flat[node].children) |->
                  VisibleBelow(flat[node].children[i], flat)])

\* determineVisible(flat): the pre-order walk from every root
determineVisible(flat) ==
  LET roots == SelectSeq(FlatSeq(flat), LAMBDA d : flat[d].parent = -1)
  IN Flatten([i \in 1..Len(roots) |-> VisibleBelow(roots[i], flat)])

\* countExpanded(node): how many visible nodes the expand flags put below node
RECURSIVE countExpanded(_, _)
countExpanded(node, flat) ==
  IF flat[node].children = <<>> \/ flat[node].expand = "false"
  THEN 1
  ELSE LET cnt[i \in 0..Len(flat[node].children)] ==
             IF i = 0 THEN 0
             ELSE cnt[i - 1] + countExpanded(flat[node].children[i], flat)
       IN cnt[Len(flat[node].children)]

\* whether a is a proper ancestor of d
IsAncestor(a, d, flat) == a # d /\ a \in Range(parentsOf(d, flat))

\* flatChildren(node, flat): all descendants of node, in flat order
flatChildren(node, flat) ==
  SelectSeq(FlatSeq(flat), LAMBDA d : IsAncestor(node, d, flat))

\* lastOfLevel(node, flat): the last node of the flat table that still belongs
\* to the group of node and its later siblings
lastOfLevel(node, flat) ==
  LET n == Cardinality(DOMAIN flat)
      InGroup(d) ==
        /\ flat[d].level >= flat[node].level
        /\ (flat[d].level # flat[node].level \/ flat[d].parent = flat[node].parent)
  IN CHOOSE last \in node..(n - 1) :
       /\ \A d \in node..last : InGroup(d)
       /\ (last = n - 1 \/ ~InGroup(last + 1))

(***************************************************************************)
(* The scale: buildTicks and getValueForPixel.  Pixel values are exact     *)
(* fractions: a layout carries one denominator den, and the center and     *)
(* the width of its ticks, like the pixels tested against it, are          *)
(* numerators over den.                                                    *)
(***************************************************************************)
\* defaultConfig.levelPercentage = 0.75, the fraction 3 / 4
levelPercentage == [num |-> 3, den |-> 4]

\* Math.pow(b, e) for a natural e
RECURSIVE Pow(_, _)
Pow(b, e) == IF e = 0 THEN 1 ELSE b * Pow(b, e - 1)

\* the unit the distances are counted in: the distance 1 is DistanceUnit
\* units, which makes every entry of ratios an integer
DistanceUnit == Pow(levelPercentage.den, MaxLevel)

\* ratios = [1, ratio, ratio^2, ratio^3, ratio^4], in units
ratios ==
  [k \in 1..(MaxLevel + 1) |->
     Pow(levelPercentage.num, k - 1) * Pow(levelPercentage.den, MaxLevel - (k - 1))]

\* the while loop of buildTicks from common on: the first index at which
\* the two paths differ.  An index past the end of a path reads undefined;
\* done is FALSE when both paths end together, where undefined === undefined
\* keeps the loop running for ever
RECURSIVE CommonFrom(_, _, _)
CommonFrom(parents, prevParents, common) ==
  IF ~Has(parents, common) /\ ~Has(prevParents, common)
    THEN [done |-> FALSE, common |-> common]
  ELSE IF /\ Has(parents, common)
          /\ Has(prevParents, common)
          /\ At(parents, common) = At(prevParents, common)
    THEN CommonFrom(parents, prevParents, common + 1)
  ELSE [done |-> TRUE, common |-> common]

\* the index into ratios buildTicks uses for the gap between the adjacent
\* nodes prev and n
GapIndex(prev, n, flat) ==
  IF flat[prev].parent = flat[n].parent
  THEN [done |-> TRUE, common |-> flat[n].level]
  ELSE CommonFrom(parentsOf(n, flat), parentsOf(prev, flat), 0)

\* distances of buildTicks, in units: half a top level distance before the
\* first and after the last node, the gap of every adjacent pair between
distances(nodes, flat) ==
  <<DistanceUnit \div 2>>
    \o [i \in 1..(Len(nodes) - 1) |->
          At(ratios, GapIndex(nodes[i], nodes[i + 1], flat).common)]
    \o <<DistanceUnit \div 2>>

\* arr.reduce((acc, s) => acc + s, 0)
RECURSIVE Sum(_)
Sum(arr) == IF arr = <<>> THEN 0 ELSE Head(arr) + Sum(Tail(arr))

\* buildTicks with the running offset started at 0 instead of distances[0]
buildTicks_OffsetFromZero(nodes, flat, total) ==
  IF nodes = <<>> THEN [den |-> 1, ticks |-> <<>>]
  ELSE
    LET ds == distances(nodes, flat)
        distance == Sum(ds)
        offset[i \in 1..Len(nodes)] == IF i = 1 THEN 0 ELSE offset[i - 1] + ds[i]
    IN [ den |-> 4 * distance,
         ticks |-> [i \in 1..Len(nodes) |->
                      [ center |-> 4 * total * offset[i],
                        width |-> 2 * total * Min(ds[i + 1], ds[i]) ]] ]

\* buildTicks with width = Math.min(next, previous), not halved
buildTicks_WidthNotHalved(nodes, flat, total) ==
  IF nodes = <<>> THEN [den |-> 1, ticks |-> <<>>]
  ELSE
    LET ds == distances(nodes, flat)
        distance == Sum(ds)
        offset[i \in 1..Len(nodes)] == IF i = 1 THEN ds[1] ELSE offset[i - 1] + ds[i]
    IN [ den |-> 4 * distance,
         ticks |-> [i \in 1..Len(nodes) |->
                      [ center |-> 4 * total * offset[i],
                        width |-> 4 * total * Min(ds[i + 1], ds[i]) ]] ]

\* buildTicks(): the center and the width of every node of the visible
\* sequence for an axis of total pixels.  With factor = total / distance,
\* center = (distances[0] + ... + distances[i]) * factor and
\* width = Math.min(next, previous) / 2; both are given over den = 4 * distance
buildTicks(nodes, flat, total) ==
  IF nodes = <<>> THEN [den |-> 1, ticks |-> <<>>]
  ELSE
    LET ds == distances(nodes, flat)
        distance == Sum(ds)
        offset[i \in 1..Len(nodes)] == IF i = 1 THEN ds[1] ELSE offset[i - 1] + ds[i]
    IN [ den |-> 4 * distance,
         ticks |-> [i \in 1..Len(nodes) |->
                      [ center |-> 4 * total * offset[i],
                        width |-> 2 * total * Min(ds[i + 1], ds[i]) ]] ]

\* arr.findIndex(test), given the 1-based positions of arr that pass the
\* test: the first of them as a 0-based position, -1 when there is none
FindIndex(passing) ==
  IF passing = {} THEN -1
  ELSE (CHOOSE i \in passing : \A j \in passing : i <= j) - 1

\* getValueForPixel with both bounds exclusive
getValueForPixel_Exclusive(layout, pixel) ==
  FindIndex({ i \in 1..Len(layout.ticks) :
                LET d == layout.ticks[i]
                IN 2 * pixel > 2 * d.center - d.width /\ 2 * pixel < 2 * d.center + d.width })

\* getValueForPixel(pixel): the first node with
\* pixel >= d.center - d.width / 2 && pixel <= d.center + d.width / 2
getValueForPixel(layout, pixel) ==
  FindIndex({ i \in 1..Len(layout.ticks) :
                LET d == layout.ticks[i]
                IN 2 * pixel >= 2 * d.center - d.width /\ 2 * pixel <= 2 * d.center + d.width })

(***************************************************************************)
(* Datasets: dataset.tree is the tree-shaped value store (one value per    *)
(* path of sibling indices), dataset.data the values of the visible nodes. *)
(***************************************************************************)
\* the path of sibling indices from a root down to node
RelPath(node, flat) ==
  LET parents == parentsOf(node, flat)
  IN [i \in 1..Len(parents) |-> flat[parents[i]].relIndex]

\* the value the d-th dataset stores at a path: distinct for distinct paths
\* and datasets
RECURSIVE TreeValue(_, _)
TreeValue(d, path) ==
  IF path = <<>> THEN d
  ELSE TreeValue(d, SubSeq(path, 1, Len(path) - 1)) * 10 + path[Len(path)] + 1

\* the value tree a dataset is given for a label tree
DataTree(d, flat) ==
  [path \in {RelPath(k, flat) : k \in DOMAIN flat} |-> TreeValue(d, path)]

\* the value of a path the tree of a dataset does not have
NaN == -1

\* resolve(label, flat, dataTree): the value at the path of label
resolve(label, flat, dataTree) ==
  IF RelPath(label, flat) \in DOMAIN dataTree
  THEN dataTree[RelPath(label, flat)]
  ELSE NaN

\* labels.map((l) => resolve(l, flat, dataset.tree))
ResolveAll(nodes, flat, dataTree) ==
  [i \in 1..Len(nodes) |-> resolve(nodes[i], flat, dataTree)]

\* the code of one label node: its label, its expand flag and its children
RECURSIVE encode(_, _)
encode(node, flat) ==
  << flat[node].label, flat[node].expand,
     [i \in 1..Len(flat[node].children) |-> encode(flat[node].children[i], flat)] >>

\* generateCode(labels): the fingerprint of the visible sequence
generateCode(nodes, flat) == [i \in 1..Len(nodes) |-> encode(nodes[i], flat)]

\* node and its descendants, in pre-order
RECURSIVE PreOrder(_, _)
PreOrder(node, flat) ==
  <<node>> \o Flatten([i \in 1..Len(flat[node].children) |->
                         PreOrder(flat[node].children[i], flat)])

\* the label nodes of chart.data.labels read as the input of toNodes: every
\* visible node is a root, its descendants follow with their expand flags
RawOfNodes(nodes, flat) ==
  Flatten([i \in 1..Len(nodes) |->
             LET sub == PreOrder(nodes[i], flat)
             IN [j \in 1..Len(sub) |->
                   [ level |-> flat[sub[j]].level - flat[nodes[i]].level,
                     expand |-> flat[sub[j]].expand,
                     own |-> flat[sub[j]].own ]]])

\* the value of an attribute for a visible node, from the while loop of
\* updateAttributes: the node's own, else that of the nearest ancestor that
\* has one, else the default
RECURSIVE Inherited(_, _, _, _)
Inherited(n, attr, flat, default) ==
  IF n < 0 THEN default
  ELSE IF flat[n].own[attr] # Absent THEN flat[n].own[attr]
  ELSE Inherited(flat[n].parent, attr, flat, default)

\* v.length >= 1 && v.every((vi) => vi === v[0]) ? v[0] : v; a single
\* value is told from an array by the flag scalar
SingleOrArray(v) ==
  IF Len(v) >= 1 /\ \A i \in 1..Len(v) : v[i] = v[1]
  THEN [scalar |-> TRUE, value |-> <<v[1]>>]
  ELSE [scalar |-> FALSE, value |-> v]

\* updateAttributes with the walk going on to the outermost ancestor that
\* has the attribute
updateAttributes_OutermostAncestor(chart) ==
  LET nodes == chart.labels
      flat == chart.flatLabels
      Outermost(n, attr) ==
        LET having == SelectSeq(parentsOf(n, flat), LAMBDA a : flat[a].own[attr] # Absent)
        IN IF having = <<>> THEN chart.attributes[attr] ELSE flat[having[1]].own[attr]
  IN [chart EXCEPT !.datasets =
        [d \in DOMAIN chart.datasets |->
           [chart.datasets[d] EXCEPT !.attrs =
              [attr \in DOMAIN chart.attributes |->
                 SingleOrArray([i \in 1..Len(nodes) |-> Outermost(nodes[i], attr)])]]]]

\* updateAttributes(chart): for every configured attribute, every dataset
\* gets the values of the visible nodes
updateAttributes(chart) ==
  LET nodes == chart.labels
      flat == chart.flatLabels
  IN [chart EXCEPT !.datasets =
        [d \in DOMAIN chart.datasets |->
           [chart.datasets[d] EXCEPT !.attrs =
              [attr \in DOMAIN chart.attributes |->
                 SingleOrArray([i \in 1..Len(nodes) |->
                                  Inherited(nodes[i], attr, flat, chart.attributes[attr])])]]]]

\* the part of check(chart) that follows a fingerprint mismatch: the flat
\* table and the visible sequence are built from the labels, the data of
\* every dataset is projected from its tree, the fingerprint is taken and
\* the attributes are updated
Rebuild(raw, trees, attrs) ==
  LET flat == toNodes(raw)
      visible == determineVisible(flat)
  IN updateAttributes(
       [ flatLabels |-> flat,
         labels |-> visible,
         datasets |-> [d \in DOMAIN trees |->
                         [ tree |-> trees[d],
                           data |-> ResolveAll(visible, flat, trees[d]),
                           attrs |-> <<>> ]],
         verify |-> generateCode(visible, flat),
         attributes |-> attrs ])

\* check(chart): nothing to do while the fingerprint matches the labels
check(chart) ==
  IF chart.verify = generateCode(chart.labels, chart.flatLabels)
  THEN chart
  ELSE Rebuild(RawOfNodes(chart.labels, chart.flatLabels),
               [d \in DOMAIN chart.datasets |-> chart.datasets[d].tree],
               chart.attributes)

\* updateVerifyCode(chart)
updateVerifyCode(chart) ==
  [chart EXCEPT !.verify = generateCode(chart.labels, chart.flatLabels)]

\* postDataUpdate without the call of updateVerifyCode
postDataUpdate_VerifyNotRefreshed(chart) == check(chart)

\* postDataUpdate(chart): the fingerprint is refreshed, the attributes are
\* updated, then chart.update() runs beforeUpdate and with it check
postDataUpdate(chart) == check(updateAttributes(updateVerifyCode(chart)))

(***************************************************************************)
(* The operations.  A chart is the record of chart.data.flatLabels,        *)
(* chart.data.labels and chart.data.datasets.                              *)
(***************************************************************************)
\* the flat table with field f of every node of the set ns set to v
SetField(flat, ns, f, v) ==
  [k \in DOMAIN flat |-> IF k \in ns THEN [flat[k] EXCEPT ![f] = v] ELSE flat[k]]

\* expandCollapse with the splice of the data arrays removing one element
\* whatever the count
expandCollapse_DataCountOne(chart, index, count, toAdd) ==
  LET removed == SpliceRemoved(chart.labels, index, count)
      hid == SetField(chart.flatLabels, Range(removed), "hidden", TRUE)
      flat == SetField(hid, Range(toAdd), "hidden", FALSE)
  IN [ chart EXCEPT
         !.flatLabels = flat,
         !.labels = Splice(chart.labels, index, count, toAdd),
         !.datasets = [d \in DOMAIN chart.datasets |->
                         LET dataset == chart.datasets[d]
                             toAddData == ResolveAll(toAdd, chart.flatLabels, dataset.tree)
                         IN [dataset EXCEPT !.data = Splice(dataset.data, index, 1, toAddData)]] ]

\* expandCollapse(chart, index, count, toAdd)
expandCollapse(chart, index, count, toAdd) ==
  LET removed == SpliceRemoved(chart.labels, index, count)
      hid == SetField(chart.flatLabels, Range(removed), "hidden", TRUE)
      flat == SetField(hid, Range(toAdd), "hidden", FALSE)
  IN [ chart EXCEPT
         !.flatLabels = flat,
         !.labels = Splice(chart.labels, index, count, toAdd),
         !.datasets = [d \in DOMAIN chart.datasets |->
                         LET dataset == chart.datasets[d]
                             toAddData == ResolveAll(toAdd, chart.flatLabels, dataset.tree)
                         IN [dataset EXCEPT !.data = Splice(dataset.data, index, count, toAddData)]] ]

\* collapse(chart, index, parent)
collapse(chart, index, parent) ==
  LET count == countExpanded(parent, chart.flatLabels)
      reset == SetField(chart.flatLabels,
                        Range(flatChildren(parent, chart.flatLabels)), "expand", "false")
      next == expandCollapse([chart EXCEPT !.flatLabels = reset], index, count, <<parent>>)
  IN postDataUpdate(
       [next EXCEPT !.flatLabels = SetField(next.flatLabels, {parent}, "expand", "false")])

\* expand without the assignment node.expand = true
expand_FlagNotSet(chart, index, node) ==
  postDataUpdate(expandCollapse(chart, index, 1, chart.flatLabels[node].children))

\* expand(chart, index, node)
expand(chart, index, node) ==
  LET next == expandCollapse(chart, index, 1, chart.flatLabels[node].children)
  IN postDataUpdate(
       [next EXCEPT !.flatLabels = SetField(next.flatLabels, {node}, "expand", "true")])

\* zoomIn without the loop that resets the other focused nodes
zoomIn_OthersNotReset(chart, lastIndex, parent) ==
  LET flat == chart.flatLabels
      count == countExpanded(parent, flat)
      index == lastIndex - count + 1
      Cut(arr) == Splice(Splice(arr, lastIndex + 1, Len(arr), <<>>), 0, index, <<>>)
  IN postDataUpdate(
       [ chart EXCEPT
           !.flatLabels = SetField(flat, {parent}, "expand", "focus"),
           !.labels = Cut(chart.labels),
           !.datasets = [d \in DOMAIN chart.datasets |->
                           [chart.datasets[d] EXCEPT !.data = Cut(chart.datasets[d].data)]] ])

\* zoomIn(chart, lastIndex, parent, flat)
zoomIn(chart, lastIndex, parent) ==
  LET flat == chart.flatLabels
      count == countExpanded(parent, flat)
      others == SetField(flat, {d \in DOMAIN flat : flat[d].expand = "focus"}, "expand", "true")
      index == lastIndex - count + 1
      Cut(arr) == Splice(Splice(arr, lastIndex + 1, Len(arr), <<>>), 0, index, <<>>)
  IN postDataUpdate(
       [ chart EXCEPT
           !.flatLabels = SetField(others, {parent}, "expand", "focus"),
           !.labels = Cut(chart.labels),
           !.datasets = [d \in DOMAIN chart.datasets |->
                           [chart.datasets[d] EXCEPT !.data = Cut(chart.datasets[d].data)]] ])

\* zoomOut with the values added before and after the data swapped
zoomOut_DataSidesSwapped(chart, parent) ==
  LET flatLabels1 == SetField(chart.flatLabels, {parent}, "expand", "true")
      nextLabels == SelectSeq(FlatSeq(flatLabels1), LAMBDA d : ~flatLabels1[d].hidden)
      index == IF chart.labels = <<>> THEN -1 ELSE IndexOf(nextLabels, At(chart.labels, 0))
      count == Len(chart.labels)
      before == Slice(nextLabels, 0, index)
      after == SliceFrom(nextLabels, index + count)
  IN postDataUpdate(
       [ chart EXCEPT
           !.flatLabels = flatLabels1,
           !.labels = Splice(Splice(chart.labels, Len(chart.labels), 0, after), 0, 0, before),
           !.datasets = [d \in DOMAIN chart.datasets |->
                           LET dataset == chart.datasets[d]
                               toAddBefore == ResolveAll(before, flatLabels1, dataset.tree)
                               toAddAfter == ResolveAll(after, flatLabels1, dataset.tree)
                           IN [dataset EXCEPT !.data =
                                 Splice(Splice(dataset.data, Len(dataset.data), 0, toAddBefore),
                                        0, 0, toAddAfter)]] ])

\* zoomOut(chart, parent)
zoomOut(chart, parent) ==
  LET flatLabels1 == SetField(chart.flatLabels, {parent}, "expand", "true")
      nextLabels == SelectSeq(FlatSeq(flatLabels1), LAMBDA d : ~flatLabels1[d].hidden)
      index == IF chart.labels = <<>> THEN -1 ELSE IndexOf(nextLabels, At(chart.labels, 0))
      count == Len(chart.labels)
      before == Slice(nextLabels, 0, index)
      after == SliceFrom(nextLabels, index + count)
  IN postDataUpdate(
       [ chart EXCEPT
           !.flatLabels = flatLabels1,
           !.labels = Splice(Splice(chart.labels, Len(chart.labels), 0, after), 0, 0, before),
           !.datasets = [d \in DOMAIN chart.datasets |->
                           LET dataset == chart.datasets[d]
                               toAddBefore == ResolveAll(before, flatLabels1, dataset.tree)
                               toAddAfter == ResolveAll(after, flatLabels1, dataset.tree)
                           IN [dataset EXCEPT !.data =
                                 Splice(Splice(dataset.data, Len(dataset.data), 0, toAddAfter),
                                        0, 0, toAddBefore)]] ])

(***************************************************************************)
(* Click handling.  A click is the position index the scale resolves the   *)
(* in-axis coordinate to (-1: no node) and the coordinate pos across the   *)
(* axis (event.y of a horizontal scale, event.x of a vertical one).        *)
(***************************************************************************)
\* the offset resolveElement starts from
StartOffset(horizontal) ==
  IF horizontal THEN scale.top + padding ELSE scale.left - padding

\* resolveElement(event, scale) returns null: the click is off the hierarchy band
Rejected(horizontal, pos) ==
  \/ (horizontal /\ pos <= StartOffset(horizontal))
  \/ (~horizontal /\ pos > StartOffset(horizontal))

\* inRange(o) of beforeEvent
inRange(horizontal, pos, o) ==
  IF horizontal
  THEN pos >= o /\ pos <= o + hierarchyBoxLineHeight
  ELSE pos <= o /\ pos >= o - hierarchyBoxLineHeight

\* offsetDelta of beforeEvent
offsetDelta(horizontal) ==
  IF horizontal THEN hierarchyBoxLineHeight ELSE -hierarchyBoxLineHeight

\* the offset of the i-th pass of the loop of handleClickEvents (i >= 1)
RowOffset(horizontal, i) == StartOffset(horizontal) + (i - 1) * offsetDelta(horizontal)

\* what the i-th pass of the loop of handleClickEvents does for the visible
\* node label, once its row is in range: the operation it dispatches, or none
RowRule(chart, label, i) ==
  LET flat == chart.flatLabels
      parents == parentsOf(label, flat)
      node == At(parents, i)
      isParentOfFirstChild ==
        \/ i = Len(parents) - 1
        \/ (flat[node].children # <<>> /\ At(flat[node].children, 0) = At(parents, i + 1))
      parent == flat[node].parent
      isLastChildOfParent == lastOfLevel(node, flat) = label
  IN IF isParentOfFirstChild /\ flat[node].relIndex = 0 /\ flat[parent].expand = "true"
       THEN [kind |-> "collapse", node |-> parent]
     ELSE IF isLastChildOfParent /\ flat[parent].expand = "focus"
       THEN [kind |-> "zoomOut", node |-> parent]
     ELSE IF /\ isLastChildOfParent
             /\ flat[parent].expand = "true"
             /\ \A d \in Range(flatChildren(parent, flat)) : flat[d].expand # "focus"
       THEN [kind |-> "zoomIn", node |-> parent]
     ELSE [kind |-> "none", node |-> -1]

\* the passes of the loop of handleClickEvents whose row holds the click and
\* whose rules name an operation
MatchingRows(chart, label, horizontal, pos) ==
  { i \in 1..(Len(parentsOf(label, chart.flatLabels)) - 1) :
      /\ inRange(horizontal, pos, RowOffset(horizontal, i))
      /\ RowRule(chart, label, i).kind # "none" }

\* no operation
NoOp == [kind |-> "none", index |-> -1, node |-> -1, matching |-> 0]

\* the loop of handleClickEvents from its i-th pass on, and the expand test
\* that follows the loop: the operation dispatched
RECURSIVE ClickLoop(_, _, _, _, _)
ClickLoop(chart, index, horizontal, pos, i) ==
  LET label == At(chart.labels, index)
      len == Len(parentsOf(label, chart.flatLabels))
      offset == RowOffset(horizontal, i)
      rule == RowRule(chart, label, i)
  IN IF i < len
       THEN IF ~inRange(horizontal, pos, offset)
              THEN ClickLoop(chart, index, horizontal, pos, i + 1)
            ELSE IF rule.kind # "none"
              THEN [ kind |-> rule.kind, index |-> index, node |-> rule.node,
                     matching |-> Cardinality(MatchingRows(chart, label, horizontal, pos)) ]
            ELSE ClickLoop(chart, index, horizontal, pos, i + 1)
     ELSE IF chart.flatLabels[label].children # <<>> /\ inRange(horizontal, pos, offset)
       THEN [kind |-> "expand", index |-> index, node |-> label, matching |-> 0]
     ELSE NoOp

\* handleClickEvents with the loop running from the clicked node up to the
\* root: the last matching pass dispatches
handleClickEvents_ClosestFirst(chart, index, horizontal, pos) ==
  IF ~Has(chart.labels, index) THEN NoOp
  ELSE
    LET label == At(chart.labels, index)
        len == Len(parentsOf(label, chart.flatLabels))
        rows == MatchingRows(chart, label, horizontal, pos)
        last == CHOOSE i \in rows : \A j \in rows : i >= j
    IN IF rows # {}
         THEN [ kind |-> RowRule(chart, label, last).kind, index |-> index,
                node |-> RowRule(chart, label, last).node, matching |-> Cardinality(rows) ]
       ELSE IF /\ chart.flatLabels[label].children # <<>>
               /\ inRange(horizontal, pos, RowOffset(horizontal, len))
         THEN [kind |-> "expand", index |-> index, node |-> label, matching |-> 0]
       ELSE NoOp

\* handleClickEvents(chart, event, elem, offsetDelta, inRange): the operation
\* a click dispatches
handleClickEvents(chart, index, horizontal, pos) ==
  IF ~Has(chart.labels, index) THEN NoOp
  ELSE ClickLoop(chart, index, horizontal, pos, 1)

\* whether an operation ends in an error: collapse, expand, zoomIn and
\* zoomOut hold no assertion and no throw, whatever the state of the node
Throws(chart, op) == FALSE

\* the chart after the operation a click dispatched
Apply(chart, op) ==
  CASE op.kind = "collapse" -> collapse(chart, op.index, op.node)
    [] op.kind = "expand" -> expand(chart, op.index, op.node)
    [] op.kind = "zoomIn" -> zoomIn(chart, op.index, op.node)
    [] op.kind = "zoomOut" -> zoomOut(chart, op.node)
    [] OTHER -> chart

\* beforeEvent without the test of resolveElement for the hierarchy band
beforeEvent_BandNotTested(chart, index, horizontal, pos) ==
  handleClickEvents(chart, index, horizontal, pos)

\* beforeEvent(chart, event) with a click: what it dispatches
beforeEvent(chart, index, horizontal, pos) ==
  IF Rejected(horizontal, pos) THEN NoOp
  ELSE handleClickEvents(chart, index, horizontal, pos)

(***************************************************************************)
(* The state machine.                                                      *)
(***************************************************************************)
\* the chart of the current state
Chart ==
  [ flatLabels |-> flatLabels, labels |-> labels, datasets |-> datasets, verify |-> verify,
    attributes |-> attributes ]

\* the deepest level of the label tree, 0 for an empty one
Depth == CHOOSE m \in 0..MaxLevel :
           /\ m = 0 \/ \E k \in DOMAIN flatLabels : flatLabels[k].level = m
           /\ \A k \in DOMAIN flatLabels : flatLabels[k].level <= m

\* the coordinates across the axis a click is tried at: the borders and the
\* middle of every row, and one position off the band on either side
ClickCoords ==
  { StartOffset(hor) + k * (offsetDelta(hor) \div 2) : k \in (-1)..(2 * (Depth + 1) + 1) }

\* the chart after construction for the labels raw and the attributes the
\* scale is configured with: the first update runs check on the labels and
\* the value trees the chart was given
Constructed(raw, attrs) ==
  /\ hor \in BOOLEAN
  /\ attributes = attrs
  /\ LET chart == Rebuild(raw, [d \in 1..NumDatasets |-> DataTree(d, toNodes(raw))], attrs)
     IN /\ flatLabels = chart.flatLabels
        /\ labels = chart.labels
        /\ datasets = chart.datasets
        /\ verify = chart.verify
        /\ ticks = buildTicks(chart.labels, chart.flatLabels, AxisLength)
  /\ lastOp = NoOp
  /\ clicks = 0

\* a chart with the default configuration: defaultConfig.attributes is empty
Init == \E raw \in RawLabels : Constructed(raw, [attr \in {} |-> 0])

\* a chart whose scale configures one attribute, with the default value 0
InitAttributes ==
  \E raw \in RawLabelsWithAttributes : Constructed(raw, [attr \in AttrNames |-> 0])

\* a chart with the default configuration whose labels may hold one focused
\* group
InitFocus == \E raw \in RawLabelsWithFocus : Constructed(raw, [attr \in {} |-> 0])

\* the coordinates along the axis a click is tried at, over ticks.den: the
\* start of the axis, and for every node the first pixel of its span and
\* the pixel that follows its span
ClickPixels ==
  {0} \cup UNION { { d.center - d.width \div 2, d.center + d.width \div 2 + 1 } :
                     d \in Range(ticks.ticks) }

\* what the clicks anywhere on the chart dispatch: resolveElement maps the
\* coordinate along the axis to a position with getValueForPixel
Dispatched ==
  { beforeEvent(Chart, getValueForPixel(ticks, pixel), hor, pos) :
      pixel \in ClickPixels, pos \in ClickCoords }

\* beforeEvent runs the operation a click dispatched to its end; the
\* chart.update() an operation ends with lays the axis out again
Run(op) ==
  LET next == Apply(Chart, op)
  IN /\ flatLabels' = next.flatLabels
     /\ labels' = next.labels
     /\ datasets' = next.datasets
     /\ verify' = next.verify
     /\ ticks' = buildTicks(next.labels, next.flatLabels, AxisLength)
     /\ lastOp' = op
     /\ UNCHANGED <<hor, attributes>>

\* a click on the collapse box of an expanded group
ClickCollapse ==
  /\ clicks < MaxClicks
  /\ \E op \in Dispatched : op.kind = "collapse" /\ Run(op)
  /\ clicks' = clicks + 1

\* a click on the row of a collapsed group
ClickExpand ==
  /\ clicks < MaxClicks
  /\ \E op \in Dispatched : op.kind = "expand" /\ Run(op)
  /\ clicks' = clicks + 1

\* a click on the focus box of an expanded group
ClickZoomIn ==
  /\ clicks < MaxClicks
  /\ \E op \in Dispatched : op.kind = "zoomIn" /\ Run(op)
  /\ clicks' = clicks + 1

\* a click on the focus box of the focused group
ClickZoomOut ==
  /\ clicks < MaxClicks
  /\ \E op \in Dispatched : op.kind = "zoomOut" /\ Run(op)
  /\ clicks' = clicks + 1

\* a click that resolves to no interaction
ClickNothing ==
  /\ \E op \in Dispatched : op.kind = "none" /\ Run(op)
  /\ UNCHANGED clicks

Next ==
  \/ ClickCollapse
  \/ ClickExpand
  \/ ClickZoomIn
  \/ ClickZoomOut
  \/ ClickNothing

Spec == Init /\ [][Next]_vars

\* the same chart with a configured attribute
SpecAttributes == InitAttributes /\ [][Next]_vars

\* the same chart with labels that may hold one focused group
SpecFocus == InitFocus /\ [][Next]_vars

(***************************************************************************)
(* Properties.                                                             *)
(***************************************************************************)
\* the nodes of the flat table
Nodes == DOMAIN flatLabels

\* the visible nodes
Visible == Range(labels)

\* C1 (alignment): after the build and after every operation, the visible
\* sequence chart.data.labels and every dataset.data have the same length.
C1_Alignment ==
  \A d \in DOMAIN datasets : Len(datasets[d].data) = Len(labels)

\* C1 witness: an operation changed the number of visible nodes, and a zoom
\* has happened before it.
C1_Witness ==
  /\ lastOp.kind = "zoomOut"
  /\ clicks >= 2
  /\ Len(labels) >= 3
  /\ C1_Alignment

\* C2 (cut): the visible sequence never holds a node together with one of
\* its ancestors, and no collapsed node has a visible descendant.
C2_Cut ==
  /\ \A a \in Visible : \A d \in Visible : ~IsAncestor(a, d, flatLabels)
  /\ \A a \in Nodes : flatLabels[a].expand = "false" =>
        \A d \in Visible : ~IsAncestor(a, d, flatLabels)

\* C3 (projection): at every position, dataset.data holds the value the
\* dataset's tree stores at the path of the visible node of that position.
C3_Projection ==
  \A d \in DOMAIN datasets :
    /\ Len(datasets[d].data) = Len(labels)
    /\ \A i \in 1..Len(labels) :
         datasets[d].data[i] = resolve(labels[i], flatLabels, datasets[d].tree)

\* C3 witness: an expand put the values of several children in place.
C3_Witness ==
  /\ lastOp.kind = "expand"
  /\ Len(flatLabels[lastOp.node].children) >= 2
  /\ Len(labels) >= 3
  /\ C3_Projection

\* whether two charts show the same visible sequence and dataset arrays
SameView(c1, c2) ==
  /\ c1.labels = c2.labels
  /\ \A d \in DOMAIN c1.datasets : c1.datasets[d].data = c2.datasets[d].data

\* C4 (expand/collapse round trip): for a visible node n with children at
\* position i, expand(i, n) followed by collapse(i, n) restores the visible
\* sequence and every dataset array.
C4_ExpandCollapseRoundTrip ==
  \A i \in 0..(Len(labels) - 1) :
    LET n == At(labels, i)
    IN flatLabels[n].children # <<>> =>
         SameView(collapse(expand(Chart, i, n), i, n), Chart)

\* the positions of the visible sequence that hold descendants of parent
PositionsBelow(parent) ==
  { i \in 0..(Len(labels) - 1) : IsAncestor(parent, At(labels, i), flatLabels) }

\* whether no node is focused
Unzoomed == \A k \in Nodes : flatLabels[k].expand # "focus"

\* C5 (zoom round trip): in an un-zoomed state, zoomIn on an expanded parent
\* whose rightmost visible descendant is at lastIndex, followed by zoomOut of
\* that parent, restores the visible sequence and every dataset array, and
\* the parent is expanded again.
C5_ZoomRoundTrip ==
  Unzoomed =>
    \A parent \in Nodes : \A lastIndex \in PositionsBelow(parent) :
      (/\ flatLabels[parent].expand = "true"
       /\ \A j \in PositionsBelow(parent) : j <= lastIndex)
      => LET back == zoomOut(zoomIn(Chart, lastIndex, parent), parent)
         IN SameView(back, Chart) /\ back.flatLabels[parent].expand = "true"

\* the visible sequence with the positions lo..hi (0-based) replaced by nodes
Replaced(arr, lo, hi, items) ==
  SubSeq(arr, 1, lo) \o items \o SubSeq(arr, hi + 2, Len(arr))

\* the part of a sequence at the positions of a set, in order
Restrict(arr, positions) ==
  LET keep == SelectSeq([i \in 1..Len(arr) |-> i - 1], LAMBDA i : i \in positions)
  IN [j \in 1..Len(keep) |-> At(arr, keep[j])]

\* C6 (collapse effect): a collapse of parent replaces exactly the
\* contiguous span of the visible descendants of parent by parent, collapses
\* parent and all its descendants, hides the removed nodes, shows parent,
\* and shrinks every dataset array alike.
C6_CollapseEffect ==
  [][lastOp'.kind = "collapse" =>
       LET parent == lastOp'.node
           below == PositionsBelow(parent)
           lo == CHOOSE i \in below : \A j \in below : i <= j
           hi == CHOOSE i \in below : \A j \in below : i >= j
       IN /\ flatLabels[parent].expand = "true"
          /\ below # {}
          /\ below = lo..hi
          /\ labels' = Replaced(labels, lo, hi, <<parent>>)
          /\ flatLabels'[parent].expand = "false"
          /\ \A d \in Nodes : IsAncestor(parent, d, flatLabels) =>
                flatLabels'[d].expand = "false"
          /\ \A i \in below : flatLabels'[At(labels, i)].hidden
          /\ ~flatLabels'[parent].hidden
          /\ \A d \in DOMAIN datasets :
                datasets'[d].data =
                  Replaced(datasets[d].data, lo, hi,
                           <<resolve(parent, flatLabels, datasets[d].tree)>>)
  ]_vars

\* C7 (expand effect): an expand of a collapsed visible node with k >= 1
\* children, shown once, replaces it by its k children in input order,
\* expands and hides it, shows the children, and puts the children's values
\* in the place of its value in every dataset array: all lengths grow by k - 1.
C7_ExpandEffect ==
  [][(/\ lastOp'.kind = "expand"
      /\ flatLabels[lastOp'.node].expand = "false"
      /\ Cardinality({i \in 1..Len(labels) : labels[i] = lastOp'.node}) = 1)
     =>
       LET node == lastOp'.node
           i == lastOp'.index
           children == flatLabels[node].children
       IN /\ At(labels, i) = node
          /\ Len(children) >= 1
          /\ labels' = Replaced(labels, i, i, children)
          /\ Len(labels') = Len(labels) + Len(children) - 1
          /\ flatLabels'[node].expand = "true"
          /\ flatLabels'[node].hidden
          /\ \A c \in Range(children) : ~flatLabels'[c].hidden
          /\ \A d \in DOMAIN datasets :
                /\ datasets'[d].data =
                     Replaced(datasets[d].data, i, i,
                              ResolveAll(children, flatLabels, datasets[d].tree))
                /\ Len(datasets'[d].data) = Len(datasets[d].data) + Len(children) - 1
  ]_vars

\* C7 witness: an expand replaced a node by two or more children, which are
\* now visible next to each other.
C7_Witness ==
  /\ lastOp.kind = "expand"
  /\ flatLabels[lastOp.node].expand = "true"
  /\ Len(flatLabels[lastOp.node].children) >= 2
  /\ SubSeq(labels, lastOp.index + 1,
            lastOp.index + Len(flatLabels[lastOp.node].children))
       = flatLabels[lastOp.node].children
  /\ Len(labels) > Len(flatLabels[lastOp.node].children)

\* C8 (zoomIn effect): after a zoomIn(lastIndex, parent) dispatched by a
\* click, the visible sequence and every dataset array hold exactly the
\* visible descendants of parent, in their order: the positions
\* lastIndex - countExpanded(parent) + 1 .. lastIndex; parent is focused.
C8_ZoomInEffect ==
  [][lastOp'.kind = "zoomIn" =>
       LET parent == lastOp'.node
           lastIndex == lastOp'.index
           first == lastIndex - countExpanded(parent, flatLabels) + 1
       IN /\ PositionsBelow(parent) = first..lastIndex
          /\ labels' = Restrict(labels, PositionsBelow(parent))
          /\ \A d \in DOMAIN datasets :
                datasets'[d].data = Restrict(datasets[d].data, PositionsBelow(parent))
          /\ flatLabels'[parent].expand = "focus"
  ]_vars

\* the operation the i-th pass of the loop names for a click on position index
RowOp(index, i) == RowRule(Chart, At(labels, index), i)

\* C9 as claimed (two rows hold the click): the operation of the ancestor
\* closest to the clicked node, the last matching pass, is the one dispatched.
C9_ClosestAncestorFirst ==
  \A index \in 0..(Len(labels) - 1) : \A pos \in ClickCoords :
    LET rows == MatchingRows(Chart, At(labels, index), hor, pos)
        closest == CHOOSE i \in rows : \A j \in rows : i >= j
        op == beforeEvent(Chart, index, hor, pos)
    IN (~Rejected(hor, pos) /\ rows # {}) =>
         op.kind = RowOp(index, closest).kind /\ op.node = RowOp(index, closest).node

\* C9 (amended): when the click lies in the rows of several ancestor levels
\* whose rules apply, the operation of the outermost of them (the lowest
\* level, farthest from the clicked node) is the one dispatched; expand of
\* the clicked node is dispatched only when no ancestor row matches.
C9_OutermostAncestorFirst ==
  \A index \in 0..(Len(labels) - 1) : \A pos \in ClickCoords :
    LET rows == MatchingRows(Chart, At(labels, index), hor, pos)
        outermost == CHOOSE i \in rows : \A j \in rows : i <= j
        op == beforeEvent(Chart, index, hor, pos)
    IN ~Rejected(hor, pos) =>
         IF rows # {}
         THEN /\ op.kind = RowOp(index, outermost).kind
              /\ op.node = RowOp(index, outermost).node
              /\ op.index = index
         ELSE op.kind \in {"expand", "none"}

\* C9 witness: a click on the border shared by two matching rows collapsed
\* a group that is not the parent of the clicked node.
C9_Witness ==
  /\ lastOp.kind = "collapse"
  /\ lastOp.matching >= 2
  /\ labels = <<lastOp.node>>
  /\ Len(flatLabels[lastOp.node].children) = 1
  /\ flatLabels[flatLabels[lastOp.node].children[1]].children # <<>>

\* whether the operation is called on a node whose expand state is not the
\* one the operation requires
PreconditionViolated(chart, op) ==
  \/ op.kind = "collapse" /\ chart.flatLabels[op.node].expand # "true"
  \/ op.kind = "expand" /\ (\/ chart.flatLabels[op.node].expand # "false"
                              \/ chart.flatLabels[op.node].children = <<>>)
  \/ op.kind = "zoomIn" /\ chart.flatLabels[op.node].expand # "true"
  \/ op.kind = "zoomOut" /\ chart.flatLabels[op.node].expand # "focus"

\* C10 (loud failure): an operation called on a node in the wrong expand
\* state ends in an error and leaves the labels, the dataset arrays and all
\* expand and hidden flags as they were.
C10_PreconditionViolationFails ==
  [][PreconditionViolated(Chart, lastOp') =>
       /\ Throws(Chart, lastOp')
       /\ UNCHANGED <<flatLabels, labels, datasets>>
  ]_vars

\* the chart after a click at pixel along the axis and pos across it
AfterClick(pixel, pos) ==
  Apply(Chart, beforeEvent(Chart, getValueForPixel(ticks, pixel), hor, pos))

\* whether a click resolves to no interaction: it is off the hierarchy band,
\* its pixel maps to no visible node, or no row of the node holds it with a
\* rule that applies
NoInteraction(pixel, pos) ==
  LET index == getValueForPixel(ticks, pixel)
      label == At(labels, index)
  IN \/ Rejected(hor, pos)
     \/ index = -1
     \/ /\ MatchingRows(Chart, label, hor, pos) = {}
        /\ ~(/\ flatLabels[label].children # <<>>
              /\ inRange(hor, pos, RowOffset(hor, Len(parentsOf(label, flatLabels)))))

\* C11 (no interaction): a click off the hierarchy band, on a pixel that maps
\* to no visible node, or in no row whose rule applies leaves the labels,
\* every dataset array, every expand and hidden flag and the fingerprint
\* unchanged.
C11_NoInteractionNoChange ==
  \A pixel \in ClickPixels : \A pos \in ClickCoords :
    NoInteraction(pixel, pos) => AfterClick(pixel, pos) = Chart

\* C11 witness: after an operation has changed the chart, a click resolved
\* to no interaction, and clicks off the band and off every node exist.
C11_Witness ==
  /\ lastOp.kind = "none"
  /\ clicks >= 1
  /\ \E pixel \in ClickPixels : getValueForPixel(ticks, pixel) = -1
  /\ \E pixel \in ClickPixels : \E pos \in ClickCoords :
        getValueForPixel(ticks, pixel) # -1 /\ Rejected(hor, pos)

\* C12 (check is a no-op on unchanged input): no step rebuilds the flat node
\* table (every node keeps its parent, level, sibling index and children),
\* and after every step the fingerprint is the one of the labels, so that
\* check changes nothing.
C12_CheckNoOp ==
  [][/\ DOMAIN flatLabels' = DOMAIN flatLabels
     /\ \A k \in DOMAIN flatLabels :
          /\ flatLabels'[k].parent = flatLabels[k].parent
          /\ flatLabels'[k].level = flatLabels[k].level
          /\ flatLabels'[k].relIndex = flatLabels[k].relIndex
          /\ flatLabels'[k].children = flatLabels[k].children
     /\ verify' = generateCode(labels', flatLabels')
     /\ check(Chart') = Chart'
  ]_vars

\* C12 witness: a zoomIn has run while nodes of the table are not visible,
\* and the fingerprint matches the labels.
C12_Witness ==
  /\ lastOp.kind = "zoomIn"
  /\ Cardinality(DOMAIN flatLabels) > Len(labels)
  /\ verify = generateCode(labels, flatLabels)
  /\ check(Chart) = Chart

\* whether the tree is a single level of leaf roots
FlatTree == labels # <<>> /\ \A k \in DOMAIN flatLabels : flatLabels[k].level = 0

\* the axis lengths the layout is computed for
AxisLengths == {1, 100, AxisLength}

\* C13 as claimed: for n leaf roots and axis length L the centers are L/n
\* apart starting at L/(2n), and all widths are equal.
C13_FlatLayoutEqualWidths ==
  FlatTree =>
    \A L \in AxisLengths :
      LET layout == buildTicks(labels, flatLabels, L)
          n == Len(labels)
      IN /\ \A i \in 1..n : layout.ticks[i].center * 2 * n = (2 * i - 1) * L * layout.den
         /\ \A i, j \in 1..n : layout.ticks[i].width = layout.ticks[j].width

\* C13 (amended): for n leaf roots and axis length L the centers are L/n
\* apart starting at L/(2n); the width of the first and of the last node is
\* L/(4n), the width of every node between them L/(2n).
C13_FlatLayout ==
  FlatTree =>
    \A L \in AxisLengths :
      LET layout == buildTicks(labels, flatLabels, L)
          n == Len(labels)
      IN /\ Len(layout.ticks) = n
         /\ \A i \in 1..n :
              /\ layout.ticks[i].center * 2 * n = (2 * i - 1) * L * layout.den
              /\ i \in {1, n} => layout.ticks[i].width * 4 * n = L * layout.den
              /\ i \notin {1, n} => layout.ticks[i].width * 2 * n = L * layout.den

\* C13 witness: three leaf roots on the axis of 300 pixels are laid out with
\* the centers 50, 150, 250 and the widths 25, 50, 25.
C13_Witness ==
  /\ FlatTree
  /\ Len(labels) = 3
  /\ ticks = buildTicks(labels, flatLabels, 300)
  /\ [i \in 1..3 |-> ticks.ticks[i].center] = <<50 * ticks.den, 150 * ticks.den, 250 * ticks.den>>
  /\ [i \in 1..3 |-> ticks.ticks[i].width] = <<25 * ticks.den, 50 * ticks.den, 25 * ticks.den>>

\* the pixels the inverse mapping is tried at, over ticks.den: both ends of
\* the axis, and for every node its center, the ends of center -+ width / 2,
\* the pixels next to these ends on either side, and the ends of
\* center -+ width
HitPixels ==
  {0, AxisLength * ticks.den} \cup
    UNION { { d.center + s * e : s \in {-1, 1},
                                e \in {0, d.width \div 2 - 1, d.width \div 2,
                                        d.width \div 2 + 1, d.width} } :
            d \in Range(ticks.ticks) }

\* whether pixel lies within extent / 2 on either side of the center of d
Within(d, pixel, extent) ==
  2 * pixel >= 2 * d.center - extent /\ 2 * pixel <= 2 * d.center + extent

C15_SingleNodeFullAxis ==
  /\ labels = <<>> => ticks.ticks = <<>>
  /\ Len(labels) = 1 =>
        \A L \in AxisLengths :
          LET d == buildTicks(labels, flatLabels, L).ticks[1]
              den == buildTicks(labels, flatLabels, L).den
          IN d.center - d.width = 0 /\ d.center + d.width = L * den

\* C15 (amended): an empty visible sequence has no geometry; a single
\* visible node has center L/2 and width L/4, so that the whole axis is
\* center -+ 2 * width.
C15_Degenerate ==
  /\ labels = <<>> =>
        /\ ticks.ticks = <<>>
        /\ \A L \in AxisLengths : buildTicks(labels, flatLabels, L).ticks = <<>>
  /\ Len(labels) = 1 =>
        /\ Len(ticks.ticks) = 1
        /\ \A L \in AxisLengths :
             LET d == buildTicks(labels, flatLabels, L).ticks[1]
                 den == buildTicks(labels, flatLabels, L).den
             IN /\ 2 * d.center = L * den
                /\ 4 * d.width = L * den
                /\ d.center - 2 * d.width = 0
                /\ d.center + 2 * d.width = L * den

\* C15 witness: a collapse left one visible node, laid out in the middle of
\* the axis.
C15_Witness ==
  /\ lastOp.kind = "collapse"
  /\ Len(labels) = 1
  /\ Len(ticks.ticks) = 1
  /\ 2 * ticks.ticks[1].center = AxisLength * ticks.den


\* C17 (collapse position): whenever a click dispatches collapse(index,
\* parent), labels[index] is the leftmost visible descendant of parent and
\* labels[index .. index + countExpanded(parent) - 1] are exactly the visible
\* descendants of parent.
C17_CollapsePosition ==
  [][ lastOp'.kind = "collapse" =>
        LET index == lastOp'.index
            parent == lastOp'.node
            below == PositionsBelow(parent)
        IN /\ index \in below
           /\ \A j \in below : index <= j
           /\ below = index..(index + countExpanded(parent, flatLabels) - 1) ]_vars


\* the length of the common prefix of two paths
CommonPrefix(a, b) ==
  CHOOSE c \in 0..Min(Len(a), Len(b)) :
    /\ \A k \in 1..c : a[k] = b[k]
    /\ (c = Min(Len(a), Len(b)) \/ a[c + 1] # b[c + 1])

\* C18 (gap rule): for adjacent visible nodes with the same parent the
\* unscaled gap is ratio^level(node); for adjacent nodes with different
\* parents it is ratio^c, c the length of the common prefix of their paths
\* from the root, with c <= min(level(prev), level(node)); the prefix scan
\* terminates and every lookup stays inside the table of 5 entries.
C18_GapRule ==
  \A i \in 1..(Len(labels) - 1) :
    LET prev == labels[i]
        n == labels[i + 1]
        gap == GapIndex(prev, n, flatLabels)
        c == CommonPrefix(parentsOf(prev, flatLabels), parentsOf(n, flatLabels))
        d == distances(labels, flatLabels)[i + 1]
    IN /\ gap.done
       /\ Has(ratios, gap.common)
       /\ IF flatLabels[prev].parent = flatLabels[n].parent
          THEN d * Pow(levelPercentage.den, flatLabels[n].level)
                 = DistanceUnit * Pow(levelPercentage.num, flatLabels[n].level)
          ELSE /\ gap.common = c
               /\ c <= Min(flatLabels[prev].level, flatLabels[n].level)
               /\ d * Pow(levelPercentage.den, c) = DistanceUnit * Pow(levelPercentage.num, c)


\* C19 (order preservation): after every operation the visible sequence is
\* strictly increasing in flat index (so it holds no duplicates), two nodes
\* visible before and after the operation keep their relative order, and
\* every dataset keeps the value of a node that stays visible.
C19_OrderPreserved ==
  [][ /\ \A i \in 1..Len(labels') : \A j \in 1..Len(labels') :
           i < j => labels'[i] < labels'[j]
      /\ \A i1 \in 1..Len(labels) : \A i2 \in 1..Len(labels) :
           \A j1 \in 1..Len(labels') : \A j2 \in 1..Len(labels') :
             (i1 < i2 /\ labels[i1] = labels'[j1] /\ labels[i2] = labels'[j2]) => j1 < j2
      /\ \A d \in DOMAIN datasets :
           \A i \in 1..Len(labels) : \A j \in 1..Len(labels') :
             (labels[i] = labels'[j] /\ i \in DOMAIN datasets[d].data
                /\ j \in DOMAIN datasets'[d].data)
               => datasets'[d].data[j] = datasets[d].data[i] ]_vars


\* the positions of the visible sequence that hold a node or one of its
\* ancestors
PositionsCovering(node) ==
  { i \in 1..Len(labels) :
      labels[i] = node \/ IsAncestor(labels[i], node, flatLabels) }

\* C20 (zoom is no dead end): in every reachable state without a focused
\* node, every leaf of the tree has exactly one ancestor-or-self in the
\* visible sequence.
C20_CompleteCut ==
  Unzoomed =>
    \A leaf \in Nodes :
      flatLabels[leaf].children = <<>> => Cardinality(PositionsCovering(leaf)) = 1


\* the proper or improper ancestors of a node that have an attribute as own
\* property
Defining(n, attr) ==
  { a \in Nodes : (a = n \/ IsAncestor(a, n, flatLabels)) /\ flatLabels[a].own[attr] # Absent }

\* the value of an attribute for a node: that of the deepest defining
\* ancestor-or-self, the configured default when there is none
ValueFor(n, attr) ==
  IF Defining(n, attr) = {} THEN attributes[attr]
  ELSE LET a == CHOOSE x \in Defining(n, attr) :
                  \A y \in Defining(n, attr) : flatLabels[y].level <= flatLabels[x].level
       IN flatLabels[a].own[attr]

\* C16 (attribute inheritance): after the build and after every operation,
\* for every configured attribute and every dataset, the value per visible
\* node is that of the nearest ancestor-or-self that has the attribute as own
\* property, or the default; the dataset attribute is the array of these
\* values aligned with the visible sequence, or the single value when the
\* array is not empty and all its elements are the same.
C16_AttributeInheritance ==
  \A attr \in DOMAIN attributes : \A d \in DOMAIN datasets :
    LET v == [i \in 1..Len(labels) |-> ValueFor(labels[i], attr)]
        got == datasets[d].attrs[attr]
    IN IF labels # <<>> /\ \A i \in 1..Len(labels) : v[i] = v[1]
       THEN got.scalar /\ got.value = <<v[1]>>
       ELSE ~got.scalar /\ got.value = v /\ Len(got.value) = Len(labels)

\* C16 witness: an operation left visible nodes with different values: one
\* has no own value and inherits that of an ancestor, another has its own
\* and an ancestor with a different one.
C16_Witness ==
  /\ lastOp.kind \in {"expand", "collapse", "zoomIn", "zoomOut"}
  /\ C16_AttributeInheritance
  /\ \E attr \in DOMAIN attributes :
       /\ \A d \in DOMAIN datasets : ~datasets[d].attrs[attr].scalar
       /\ \E n \in Visible : n \notin Defining(n, attr) /\ Defining(n, attr) # {}
       /\ \E m \in Visible : \E b \in Defining(m, attr) :
            /\ m \in Defining(m, attr)
            /\ IsAncestor(b, m, flatLabels)
            /\ flatLabels[m].own[attr] # flatLabels[b].own[attr]


\* C21 (splices agree with recomputation): in every reachable state without
\* a focused node the visible sequence is the cut determineVisible computes
\* from the current expand flags, and every node a click dispatches expand
\* on has expand === false.
C21_SplicesAgreeWithRecomputation ==
  /\ Unzoomed => labels = determineVisible(flatLabels)
  /\ \A op \in Dispatched : op.kind = "expand" => flatLabels[op.node].expand = "false"


\* the focused nodes of a flat table
Focused(flat) == { k \in DOMAIN flat : flat[k].expand = "focus" }

\* C22 (single focus): at most one node has expand === 'focus'; no click
\* dispatches zoomIn on a parent with a focused descendant; and zoomIn leaves
\* its target as the only focused node, every node focused before being
\* reset to true.
C22_SingleFocus ==
  /\ Cardinality(Focused(flatLabels)) <= 1
  /\ \A op \in Dispatched :
       op.kind = "zoomIn" =>
         LET next == zoomIn(Chart, op.index, op.node)
         IN /\ \A d \in Focused(flatLabels) : ~IsAncestor(op.node, d, flatLabels)
            /\ Focused(next.flatLabels) = {op.node}
            /\ \A k \in Focused(flatLabels) \ {op.node} : next.flatLabels[k].expand = "true"

\* C22 witness: after some click, while one group is focused, a click
\* dispatches zoomIn on another group, which takes the focus over.
C22_Witness ==
  /\ clicks >= 1
  /\ C22_SingleFocus
  /\ \E op \in Dispatched : \E k \in Focused(flatLabels) :
       /\ op.kind = "zoomIn"
       /\ k # op.node
       /\ Focused(zoomIn(Chart, op.index, op.node).flatLabels) = {op.node}

====
